---- MODULE Spec2Model ----
(***************************************************************************)
(* Model of src/tools/openrouter_config.py: the retry-wrapped API caller   *)
(* generate_content_with_retry (one HTTP POST per try, wrapped by          *)
(* backoff.on_exception) and the chat adapter get_chat_completion (message *)
(* conversion plus its own bounded retry loop).                            *)
(*                                                                         *)
(* Texts are sequences of one-character strings, so that concatenation,    *)
(* str.strip() and the substring test `"API limit" in str(e)` are computed *)
(* character by character.  Python values that may be None, a str or an    *)
(* int are tagged records.                                                 *)
(***************************************************************************)
EXTENDS Integers, Sequences, FiniteSets, TLC

VARIABLES
    pc,                   \* per call: position in get_chat_completion
    messages,             \* argument
    max_retries,          \* argument
    initial_retry_delay,  \* argument
    attempt,              \* loop variable of `for attempt in range(max_retries)`
    prompt,               \* local prompt (before strip)
    system_instruction,   \* local
    config,               \* local
    tries,                \* tries made by the backoff decorator in the current call of the API caller
    response_text,        \* value returned by generate_content_with_retry
    e,                    \* str(e) of the exception being handled, or NoException
    result,               \* value returned by get_chat_completion
    hist,                 \* observation record: requests, sleeps, last outcome
    endpoint              \* what the endpoint answered: pairs <<request body, outcome>>

vars == <<pc, messages, max_retries, initial_retry_delay, attempt, prompt,
          system_instruction, config, tries, response_text, e, result, hist,
          endpoint>>

-----------------------------------------------------------------------------
(* Bounds of the model *)

MaxMsgs == 2          \* longest message sequence drawn by the conversion specification
MaxRetries == 3       \* largest max_retries drawn

Callers == {1, 2}

-----------------------------------------------------------------------------
(* Python values *)

None == [type |-> "NoneType"]
PyStr(s) == [type |-> "str", value |-> s]
PyInt(n) == [type |-> "int", num |-> n]

\* Python truthiness of None, str and int values
Truthy(v) ==
    CASE v.type = "NoneType" -> FALSE
      [] v.type = "str" -> Len(v.value) > 0
      [] v.type = "int" -> v.num # 0

\* len(v) is defined for str only; None and int raise TypeError
HasLen(v) == v.type = "str"

-----------------------------------------------------------------------------
(* Texts *)

NL == "\n"
Whitespace == {" ", NL, "\t"}

RECURSIVE LStrip(_)
LStrip(s) == IF s # <<>> /\ Head(s) \in Whitespace THEN LStrip(Tail(s)) ELSE s

RECURSIVE RStrip(_)
RStrip(s) ==
    IF s # <<>> /\ s[Len(s)] \in Whitespace THEN RStrip(SubSeq(s, 1, Len(s) - 1)) ELSE s

\* str.strip()
Strip(s) == RStrip(LStrip(s))

\* `sub in s`
Contains(s, sub) ==
    \E i \in 1..(Len(s) - Len(sub) + 1) : SubSeq(s, i, i + Len(sub) - 1) = sub

Digit(n) == CASE n = 0 -> "0" [] n = 1 -> "1" [] n = 2 -> "2" [] n = 3 -> "3"
              [] n = 4 -> "4" [] n = 5 -> "5" [] n = 6 -> "6" [] n = 7 -> "7"
              [] n = 8 -> "8" [] n = 9 -> "9"

\* str(n) of a non-negative int, as in the f-string of the status code
RECURSIVE Decimal(_)
Decimal(n) == IF n < 10 THEN <<Digit(n)>> ELSE Decimal(n \div 10) \o <<Digit(n % 10)>>

API_LIMIT == <<"A", "P", "I", " ", "l", "i", "m", "i", "t">>
UserLabel == <<"U", "s", "e", "r", ":", " ">>
AssistantLabel == <<"A", "s", "s", "i", "s", "t", "a", "n", "t", ":", " ">>
\* the four CJK characters of the message prefix are written as their pinyin
ErrorPrefix == <<"A", "P", "I", " ", "fan", "hui", "cuo", "wu", ":", " ">>
Dash == <<" ", "-", " ">>

MODEL == "deepseek-r1:7b"
OLLAMA_API_URL == "http://localhost:11434/api/generate"

-----------------------------------------------------------------------------
(* Messages *)

Roles == {"system", "user", "assistant", "tool"}
Contents == {<<>>, <<"h">>, <<"h", " ">>}

\* a message is a dict; well-formed ones have the keys role and content
WellFormed == [role : Roles, content : Contents]
NoRole == [content : {<<"h">>}]
NoContent == [role : {"user"}]
Message == WellFormed \cup NoRole \cup NoContent

SeqsUpTo(S, n) == UNION {[1..k -> S] : k \in 0..n}

Msg(r, c) == [role |-> r, content |-> c]

\* the message sequences the retry specification draws
MessageLists ==
    { <<>>,
      <<Msg("system", <<"B">>), Msg("user", <<"2", "+", "2", "?">>)>>,
      <<Msg("user", <<"H", "i">>), Msg("assistant", <<"H", "e", "l", "l", "o">>),
        Msg("user", <<"B", "y", "e">>)>>,
      <<Msg("user", <<"h">>), [content |-> <<"h">>]>>,
      <<[role |-> "user"]>> }

RetryCounts == (0 - 1)..MaxRetries
RetryDelays == {0 - 1, 0, 1, 2}

-----------------------------------------------------------------------------
(* lines 133-149: conversion of the messages into prompt and config *)

KeyErrorRole == <<"'", "r", "o", "l", "e", "'">>
KeyErrorContent == <<"'", "c", "o", "n", "t", "e", "n", "t", "'">>

\* ConvertStep that puts each new line in front of the prompt
ConvertStepPrepends(acc, message) ==
    IF ~acc.ok THEN acc
    ELSE IF "role" \notin DOMAIN message
         THEN [acc EXCEPT !.ok = FALSE, !.error = PyStr(KeyErrorRole)]
    ELSE IF "content" \notin DOMAIN message
         THEN [acc EXCEPT !.ok = FALSE, !.error = PyStr(KeyErrorContent)]
    ELSE IF message.role = "system"
         THEN [acc EXCEPT !.system_instruction = PyStr(message.content)]
    ELSE IF message.role = "user"
         THEN [acc EXCEPT !.prompt = UserLabel \o message.content \o <<NL>> \o @]
    ELSE IF message.role = "assistant"
         THEN [acc EXCEPT !.prompt = AssistantLabel \o message.content \o <<NL>> \o @]
    ELSE acc

\* ConvertStep that keeps the first system message instead of the last
ConvertStepFirstSystem(acc, message) ==
    IF ~acc.ok THEN acc
    ELSE IF "role" \notin DOMAIN message
         THEN [acc EXCEPT !.ok = FALSE, !.error = PyStr(KeyErrorRole)]
    ELSE IF "content" \notin DOMAIN message
         THEN [acc EXCEPT !.ok = FALSE, !.error = PyStr(KeyErrorContent)]
    ELSE IF message.role = "system"
         THEN IF acc.system_instruction = None
              THEN [acc EXCEPT !.system_instruction = PyStr(message.content)]
              ELSE acc
    ELSE IF message.role = "user"
         THEN [acc EXCEPT !.prompt = @ \o UserLabel \o message.content \o <<NL>>]
    ELSE IF message.role = "assistant"
         THEN [acc EXCEPT !.prompt = @ \o AssistantLabel \o message.content \o <<NL>>]
    ELSE acc

\* ConvertStep that also writes the system message into the prompt
ConvertStepSystemInPrompt(acc, message) ==
    IF ~acc.ok THEN acc
    ELSE IF "role" \notin DOMAIN message
         THEN [acc EXCEPT !.ok = FALSE, !.error = PyStr(KeyErrorRole)]
    ELSE IF "content" \notin DOMAIN message
         THEN [acc EXCEPT !.ok = FALSE, !.error = PyStr(KeyErrorContent)]
    ELSE IF message.role = "system"
         THEN [acc EXCEPT !.system_instruction = PyStr(message.content),
                          !.prompt = @ \o message.content \o <<NL>>]
    ELSE IF message.role = "user"
         THEN [acc EXCEPT !.prompt = @ \o UserLabel \o message.content \o <<NL>>]
    ELSE IF message.role = "assistant"
         THEN [acc EXCEPT !.prompt = @ \o AssistantLabel \o message.content \o <<NL>>]
    ELSE acc

\* ConvertStep that passes over a message without role or content
ConvertStepSkipsMalformed(acc, message) ==
    IF ~acc.ok \/ DOMAIN message # {"role", "content"} THEN acc
    ELSE IF message.role = "system"
         THEN [acc EXCEPT !.system_instruction = PyStr(message.content)]
    ELSE IF message.role = "user"
         THEN [acc EXCEPT !.prompt = @ \o UserLabel \o message.content \o <<NL>>]
    ELSE IF message.role = "assistant"
         THEN [acc EXCEPT !.prompt = @ \o AssistantLabel \o message.content \o <<NL>>]
    ELSE acc

\* one iteration of `for message in messages` (lines 137-144) on the
\* accumulators; message["role"] is read before message["content"]
ConvertStep(acc, message) ==
    IF ~acc.ok THEN acc
    ELSE IF "role" \notin DOMAIN message
         THEN [acc EXCEPT !.ok = FALSE, !.error = PyStr(KeyErrorRole)]
    ELSE IF "content" \notin DOMAIN message
         THEN [acc EXCEPT !.ok = FALSE, !.error = PyStr(KeyErrorContent)]
    ELSE IF message.role = "system"
         THEN [acc EXCEPT !.system_instruction = PyStr(message.content)]
    ELSE IF message.role = "user"
         THEN [acc EXCEPT !.prompt = @ \o UserLabel \o message.content \o <<NL>>]
    ELSE IF message.role = "assistant"
         THEN [acc EXCEPT !.prompt = @ \o AssistantLabel \o message.content \o <<NL>>]
    ELSE acc

RECURSIVE ConvertFrom(_, _, _)
ConvertFrom(msgs, i, acc) ==
    IF i > Len(msgs) THEN acc ELSE ConvertFrom(msgs, i + 1, ConvertStep(acc, msgs[i]))

\* lines 133-144
ConvertMessages(msgs) ==
    ConvertFrom(msgs, 1, [ok |-> TRUE, prompt |-> <<>>, system_instruction |-> None,
                          error |-> None])

EmptyConfig == [k \in {} |-> None]

\* MakeConfig without the test of line 148
MakeConfigAlways(sys) == [system_instruction |-> sys]

\* lines 147-149
MakeConfig(sys) ==
    IF Truthy(sys) THEN [system_instruction |-> sys] ELSE EmptyConfig

-----------------------------------------------------------------------------
(* lines 86-121: one try of generate_content_with_retry *)

\* what the endpoint does with one POST
Statuses == {201, 429}
ErrorBodies == {<<"n", "o">>, API_LIMIT}
JsonBodies ==
    { [valid |-> FALSE],
      [valid |-> TRUE, object |-> FALSE],
      [valid |-> TRUE, object |-> TRUE, fields |-> [done |-> PyInt(1)]],
      [valid |-> TRUE, object |-> TRUE, fields |-> [response |-> PyStr(<<>>)]],
      [valid |-> TRUE, object |-> TRUE, fields |-> [response |-> PyStr(<<"4">>)]],
      [valid |-> TRUE, object |-> TRUE, fields |-> [response |-> None]],
      [valid |-> TRUE, object |-> TRUE, fields |-> [response |-> PyInt(4)]] }

Outcomes ==
    {[kind |-> "transport"]}
    \cup [kind : {"response"}, status_code : Statuses, text : ErrorBodies]
    \cup [kind : {"response"}, status_code : {200}, json : JsonBodies]

ConnectionRefused == <<"r", "e", "f", "u", "s", "e", "d">>
JSONDecodeError == <<"E", "x", "p", "e", "c", "t", "i", "n", "g">>
AttributeError == <<"n", "o", " ", "g", "e", "t">>
TypeError == <<"n", "o", " ", "l", "e", "n">>

\* lines 94-98
Payload(p) == [model |-> MODEL, prompt |-> p, stream |-> FALSE]

\* get without the default ""
GetResponseNoDefault(fields) ==
    IF "response" \in DOMAIN fields THEN fields["response"] ELSE None

\* line 108: response_data.get("response", "")
GetResponse(fields) ==
    IF "response" \in DOMAIN fields THEN fields["response"] ELSE PyStr(<<>>)

Raise(msg) == [raised |-> TRUE, message |-> msg]
Return(v) == [raised |-> FALSE, value |-> v]

\* TryBody whose non-200 message leaves out the response body
TryBodyNoBody(o) ==
    IF o.kind = "transport" THEN Raise(ConnectionRefused)
    ELSE IF o.status_code # 200
         THEN Raise(ErrorPrefix \o Decimal(o.status_code))
    ELSE IF ~o.json.valid THEN Raise(JSONDecodeError)
    ELSE IF ~o.json.object THEN Raise(AttributeError)
    ELSE LET generated_text == GetResponse(o.json.fields)
         IN  IF ~HasLen(generated_text) THEN Raise(TypeError)
             ELSE Return(generated_text)

\* lines 101-112: the body of the try block for the outcome o of the POST
TryBody(o) ==
    IF o.kind = "transport" THEN Raise(ConnectionRefused)
    ELSE IF o.status_code # 200
         THEN Raise(ErrorPrefix \o Decimal(o.status_code) \o Dash \o o.text)
    ELSE IF ~o.json.valid THEN Raise(JSONDecodeError)
    ELSE IF ~o.json.object THEN Raise(AttributeError)
    ELSE LET generated_text == GetResponse(o.json.fields)
         IN  IF ~HasLen(generated_text) THEN Raise(TypeError)
             ELSE Return(generated_text)

\* line 115: the handler sleeps 5 s before re-raising
\* a handler that sleeps after every failure
SleepsOnLimitAlways(msg) == TRUE

SleepsOnLimit(msg) == Contains(msg, API_LIMIT)

\* giveup that never gives up
giveupNever(msg) == FALSE

\* line 84
giveup(msg) == ~Contains(msg, API_LIMIT)

max_tries == 5
max_time == 300

\* a decorator without max_tries and max_time
RetriesUnbounded(msg, n, elapsed) == ~giveup(msg)

\* lines 79-85: backoff.on_exception after a try that raised; elapsed is the
\* time since the first try, which no bound on a request's duration limits
Retries(msg, n, elapsed) ==
    ~(giveup(msg) \/ n = max_tries \/ elapsed >= max_time)

LimitSleep == 5

\* lines 114-121: the handler, for an exception with message msg
HandlerSteps(msg) ==
    IF SleepsOnLimit(msg) THEN <<"sleep", "raise">> ELSE <<"raise">>

\* lines 79-121: the steps of one try, in the order the code takes them: the
\* POST, then either the return or the handler followed by the decorator,
\* which waits before the next try or lets the exception through
TryOrder(r, again) ==
    IF r.raised
    THEN <<"post">> \o HandlerSteps(r.message) \o <<IF again THEN "wait" ELSE "giveup">>
    ELSE <<"post", "return">>

-----------------------------------------------------------------------------
(* lines 124-185: get_chat_completion *)

\* line 153: the prompt handed to the API caller
ApiPrompt(p) == Strip(p)

\* the retry tests written as `attempt < max_retries`
ExceptionRetriesOffByOne(a, n) == a < n
EmptyRetriesOffByOne(a, n) == a < n

\* the empty-text path without the doubling
EmptyDelayConstant(d, a) == d

\* the exception path doubling once too often: 2 ** (attempt + 1)
ExceptionDelayNextPower(d, a) == d * (2 ^ (a + 1))

\* line 160 and line 175: `attempt < max_retries - 1`
EmptyRetries(a, n) == a < n - 1
ExceptionRetries(a, n) == a < n - 1

\* line 161 and line 176: `initial_retry_delay * (2 ** attempt)`
EmptyDelay(d, a) == d * (2 ^ a)
ExceptionDelay(d, a) == d * (2 ^ a)

\* time.sleep raises ValueError for a negative length
SleepRaises(secs) == secs < 0
ValueError == <<"n", "e", "g", "a", "t", "i", "v", "e">>

\* Handler without the outer try of line 126
HandlerNoOuterTry(site) ==
    CASE site = "inner_try" -> "except"
      [] site = "inner_except" -> "raised"
      [] site = "outer_except" -> "raised"

\* Handler whose line 172 also catches what its own body raises
HandlerCatchesItself(site) ==
    CASE site = "inner_try" -> "except"
      [] site = "inner_except" -> "except"
      [] site = "outer_except" -> "raised"

\* where an exception raised at a site of get_chat_completion is handled:
\* the body of the inner try by line 172, the body of that handler by line 183,
\* and nothing encloses the outer handler
Handler(site) ==
    CASE site = "inner_try" -> "except"
      [] site = "inner_except" -> "outer_except"
      [] site = "outer_except" -> "raised"

\* range(max_retries) that yields 0 even when max_retries <= 0
InRangeAtLeastOnce(a, n) == a < n \/ a = 0

\* line 130: `attempt` is still in range(max_retries)
InRange(a, n) == a < n

\* a loop counter that a new call does not reset: it starts where the
\* furthest call stands
FirstAttemptKept(c) ==
    [attempt EXCEPT ![c] = CHOOSE m \in {attempt[x] : x \in Callers} :
                               \A x \in Callers : attempt[x] <= m]

\* line 130: the loop of call c starts at 0
FirstAttempt(c) == [attempt EXCEPT ![c] = 0]

\* a loop counter shared by all calls
NextAttemptShared(c) == [x \in Callers |-> attempt[x] + 1]

\* line 130: the loop of call c moves to its next attempt; attempt is a local
NextAttempt(c) == [attempt EXCEPT ![c] = @ + 1]

NoOutcome == [kind |-> "none"]
NoDecision == [path |-> "none"]
NoPayload == [model |-> "", prompt |-> <<>>, stream |-> TRUE]

NewHist ==
    [ attempts |-> 0,           \* attempts started (iterations of the for loop)
      requests |-> 0,           \* HTTP requests issued
      sleeps |-> <<>>,          \* completed retry sleeps of the adapter, in order
      limit_sleeps |-> 0,       \* 5-second sleeps of the API caller's handler
      waits |-> 0,              \* waits of the backoff decorator
      last |-> NoOutcome,       \* outcome of the latest request of this attempt
      api |-> "none",           \* how the latest try of the API caller ended
      elapsed |-> 0,            \* the decorator's elapsed time at the latest try
      call_limits |-> 0,        \* "API limit" failures in the current call of the API caller
      payload |-> NoPayload,    \* body of the latest request
      order |-> <<>>,           \* what the latest try did, in order
      limit_secs |-> 0,         \* seconds slept by the API caller's handler
      timed_out |-> FALSE,      \* max_time ended a retry that max_tries still allowed
      decided |-> NoDecision ]  \* latest retry decision of the adapter

Init ==
    /\ pc = [c \in Callers |-> "idle"]
    /\ messages = [c \in Callers |-> <<>>]
    /\ max_retries = [c \in Callers |-> 0]
    /\ initial_retry_delay = [c \in Callers |-> 0]
    /\ attempt = [c \in Callers |-> 0]
    /\ prompt = [c \in Callers |-> <<>>]
    /\ system_instruction = [c \in Callers |-> None]
    /\ config = [c \in Callers |-> EmptyConfig]
    /\ tries = [c \in Callers |-> 0]
    /\ response_text = [c \in Callers |-> None]
    /\ e = [c \in Callers |-> None]
    /\ result = [c \in Callers |-> None]
    /\ hist = [c \in Callers |-> NewHist]
    /\ endpoint = {}

\* line 124: the call, and line 130: range(max_retries) is created
Call(c, msgs, n, d) ==
    /\ pc[c] = "idle"
    /\ pc' = [pc EXCEPT ![c] = "for"]
    /\ messages' = [messages EXCEPT ![c] = msgs]
    /\ max_retries' = [max_retries EXCEPT ![c] = n]
    /\ initial_retry_delay' = [initial_retry_delay EXCEPT ![c] = d]
    /\ attempt' = FirstAttempt(c)
    /\ UNCHANGED <<prompt, system_instruction, config, tries, response_text, e,
                   result, hist>>
    /\ UNCHANGED endpoint

\* line 130 with the range exhausted: the function falls off its end
LoopExit(c) ==
    /\ pc[c] = "for"
    /\ ~InRange(attempt[c], max_retries[c])
    /\ pc' = [pc EXCEPT ![c] = "done"]
    /\ result' = [result EXCEPT ![c] = None]
    /\ UNCHANGED <<messages, max_retries, initial_retry_delay, attempt, prompt,
                   system_instruction, config, tries, response_text, e, hist>>
    /\ UNCHANGED endpoint

\* lines 130-149: one more attempt starts and converts the messages
Convert(c) ==
    /\ pc[c] = "for"
    /\ InRange(attempt[c], max_retries[c])
    /\ LET r == ConvertMessages(messages[c])
       IN  /\ prompt' = [prompt EXCEPT ![c] = r.prompt]
           /\ system_instruction' = [system_instruction EXCEPT ![c] = r.system_instruction]
           /\ config' = [config EXCEPT ![c] =
                           IF r.ok THEN MakeConfig(r.system_instruction) ELSE EmptyConfig]
           /\ e' = [e EXCEPT ![c] = r.error]
           /\ pc' = [pc EXCEPT ![c] = IF r.ok THEN "call" ELSE Handler("inner_try")]
    /\ tries' = [tries EXCEPT ![c] = 0]
    /\ response_text' = [response_text EXCEPT ![c] = None]
    /\ hist' = [hist EXCEPT ![c].attempts = @ + 1, ![c].last = NoOutcome,
                            ![c].api = "none", ![c].elapsed = 0,
                            ![c].call_limits = 0, ![c].order = <<>>]
    /\ UNCHANGED <<messages, max_retries, initial_retry_delay, attempt, result>>
    /\ UNCHANGED endpoint

\* lines 79-121: one try of generate_content_with_retry under the backoff
\* decorator: the POST, the try body, the handler and the decorator's decision;
\* the answer o is the endpoint's, whose record the specifications keep
Http(c, o, elapsed) ==
    /\ pc[c] = "call"
    /\ LET r == TryBody(o)
           n == tries[c] + 1
           limited == r.raised /\ SleepsOnLimit(r.message)
           again == r.raised /\ Retries(r.message, n, elapsed)
           cut == r.raised /\ ~again /\ Retries(r.message, n, 0)
       IN  /\ tries' = [tries EXCEPT ![c] = n]
           /\ hist' = [hist EXCEPT ![c].requests = @ + 1,
                                   ![c].last = o,
                                   ![c].api = IF r.raised THEN "raised" ELSE "returned",
                                   ![c].elapsed = elapsed,
                                   ![c].payload = Payload(ApiPrompt(prompt[c])),
                                   ![c].order = TryOrder(r, again),
                                   ![c].limit_secs = IF limited THEN @ + LimitSleep ELSE @,
                                   ![c].timed_out = @ \/ cut,
                                   ![c].limit_sleeps = IF limited THEN @ + 1 ELSE @,
                                   ![c].call_limits = IF limited THEN @ + 1 ELSE @,
                                   ![c].waits = IF again THEN @ + 1 ELSE @]
           /\ response_text' = [response_text EXCEPT ![c] =
                                  IF r.raised THEN None ELSE r.value]
           /\ e' = [e EXCEPT ![c] = IF r.raised THEN PyStr(r.message) ELSE None]
           /\ pc' = [pc EXCEPT ![c] =
                       IF ~r.raised THEN "check"
                       ELSE IF again THEN "call"
                       ELSE Handler("inner_try")]
    /\ UNCHANGED <<messages, max_retries, initial_retry_delay, attempt, prompt,
                   system_instruction, config, result>>

\* lines 157-165: the API caller returned a falsy text
EmptyResponse(c) ==
    /\ pc[c] = "check"
    /\ ~Truthy(response_text[c])
    /\ LET retry == EmptyRetries(attempt[c], max_retries[c])
           retry_delay == EmptyDelay(initial_retry_delay[c], attempt[c])
           d == [path |-> "empty", attempt |-> attempt[c], retry |-> retry,
                 delay |-> IF retry THEN retry_delay ELSE 0]
       IN  IF ~retry
           THEN /\ pc' = [pc EXCEPT ![c] = "done"]
                /\ result' = [result EXCEPT ![c] = None]
                /\ hist' = [hist EXCEPT ![c].decided = d]
                /\ UNCHANGED <<attempt, e>>
           ELSE IF SleepRaises(retry_delay)
           THEN /\ pc' = [pc EXCEPT ![c] = Handler("inner_try")]
                /\ e' = [e EXCEPT ![c] = PyStr(ValueError)]
                /\ hist' = [hist EXCEPT ![c].decided = d]
                /\ UNCHANGED <<attempt, result>>
           ELSE /\ pc' = [pc EXCEPT ![c] = "for"]
                /\ attempt' = NextAttempt(c)
                /\ hist' = [hist EXCEPT ![c].decided = d,
                                        ![c].sleeps = Append(@, [after |-> attempt[c],
                                                                   secs |-> retry_delay])]
                /\ UNCHANGED <<e, result>>
    /\ UNCHANGED <<messages, max_retries, initial_retry_delay, prompt,
                   system_instruction, config, tries, response_text>>
    /\ UNCHANGED endpoint

\* ReturnText without the return of line 170: the loop goes on
ReturnTextContinues(c) ==
    /\ pc[c] = "check"
    /\ Truthy(response_text[c])
    /\ pc' = [pc EXCEPT ![c] = "for"]
    /\ attempt' = [attempt EXCEPT ![c] = @ + 1]
    /\ UNCHANGED <<messages, max_retries, initial_retry_delay, prompt,
                   system_instruction, config, tries, response_text, e, result, hist>>
    /\ UNCHANGED endpoint

\* lines 167-170: the API caller returned a truthy text
ReturnText(c) ==
    /\ pc[c] = "check"
    /\ Truthy(response_text[c])
    /\ pc' = [pc EXCEPT ![c] = "done"]
    /\ result' = [result EXCEPT ![c] = response_text[c]]
    /\ UNCHANGED <<messages, max_retries, initial_retry_delay, attempt, prompt,
                   system_instruction, config, tries, response_text, e, hist>>
    /\ UNCHANGED endpoint

\* lines 172-181: the handler of the inner try
HandleException(c) ==
    /\ pc[c] = "except"
    /\ LET retry == ExceptionRetries(attempt[c], max_retries[c])
           retry_delay == ExceptionDelay(initial_retry_delay[c], attempt[c])
           d == [path |-> "exception", attempt |-> attempt[c], retry |-> retry,
                 delay |-> IF retry THEN retry_delay ELSE 0]
       IN  IF ~retry
           THEN /\ pc' = [pc EXCEPT ![c] = "done"]
                /\ result' = [result EXCEPT ![c] = None]
                /\ hist' = [hist EXCEPT ![c].decided = d]
                /\ UNCHANGED <<attempt, e>>
           ELSE IF SleepRaises(retry_delay)
           THEN /\ pc' = [pc EXCEPT ![c] = Handler("inner_except")]
                /\ e' = [e EXCEPT ![c] = PyStr(ValueError)]
                /\ hist' = [hist EXCEPT ![c].decided = d]
                /\ UNCHANGED <<attempt, result>>
           ELSE /\ pc' = [pc EXCEPT ![c] = "for"]
                /\ attempt' = NextAttempt(c)
                /\ e' = [e EXCEPT ![c] = None]
                /\ hist' = [hist EXCEPT ![c].decided = d,
                                        ![c].sleeps = Append(@, [after |-> attempt[c],
                                                                   secs |-> retry_delay])]
                /\ UNCHANGED result
    /\ UNCHANGED <<messages, max_retries, initial_retry_delay, prompt,
                   system_instruction, config, tries, response_text>>
    /\ UNCHANGED endpoint

\* lines 183-185: the handler of the outer try
OuterExcept(c) ==
    /\ pc[c] = "outer_except"
    /\ pc' = [pc EXCEPT ![c] = "done"]
    /\ result' = [result EXCEPT ![c] = None]
    /\ UNCHANGED <<messages, max_retries, initial_retry_delay, attempt, prompt,
                   system_instruction, config, tries, response_text, e, hist>>
    /\ UNCHANGED endpoint

-----------------------------------------------------------------------------
(* Specifications *)

ElapsedChoices == {0, max_time}

\* one call of get_chat_completion against an arbitrary endpoint
Begin == \E msgs \in MessageLists, n \in RetryCounts, d \in RetryDelays : Call(1, msgs, n, d)
Exit == LoopExit(1)
Build == Convert(1)
Request ==
    \E o \in Outcomes, elapsed \in ElapsedChoices : Http(1, o, elapsed) /\ UNCHANGED endpoint
Empty == EmptyResponse(1)
Success == ReturnText(1)
Failed == HandleException(1)
Outer == OuterExcept(1)

Next == Begin \/ Exit \/ Build \/ Request \/ Empty \/ Success \/ Failed \/ Outer

Spec == Init /\ [][Next]_vars

\* the conversion of every message sequence up to MaxMsgs messages
BeginAny == \E msgs \in SeqsUpTo(Message, MaxMsgs) : Call(1, msgs, 1, 1)

PlainOutcomes ==
    { [kind |-> "transport"],
      [kind |-> "response", status_code |-> 200,
       json |-> [valid |-> TRUE, object |-> TRUE, fields |-> [response |-> PyStr(<<"4">>)]]] }

RequestPlain == \E o \in PlainOutcomes : Http(1, o, 0) /\ UNCHANGED endpoint

NextConvert == BeginAny \/ Build \/ RequestPlain \/ Success \/ Failed

SpecConvert == Init /\ [][NextConvert]_vars

\* two calls in a row with the same arguments against a deterministic
\* endpoint: a request body that was answered before gets the same answer
PayloadOf(c) == Payload(ApiPrompt(prompt[c]))

Answers(body) ==
    IF \E x \in endpoint : x[1] = body
    THEN {x[2] : x \in {y \in endpoint : y[1] = body}}
    ELSE Outcomes

RequestDet(c) ==
    \E o \in Answers(PayloadOf(c)), elapsed \in ElapsedChoices :
        /\ Http(c, o, elapsed)
        /\ endpoint' = endpoint \cup {<<PayloadOf(c), o>>}

TwiceDelays == {0 - 1, 1}

First == \E msgs \in MessageLists, n \in RetryCounts, d \in TwiceDelays : Call(1, msgs, n, d)

Second ==
    /\ pc[1] = "done"
    /\ Call(2, messages[1], max_retries[1], initial_retry_delay[1])

StepDet(c) ==
    \/ LoopExit(c)
    \/ Convert(c)
    \/ RequestDet(c)
    \/ EmptyResponse(c)
    \/ ReturnText(c)
    \/ HandleException(c)
    \/ OuterExcept(c)

NextTwice == First \/ Second \/ \E c \in Callers : StepDet(c)

SpecTwice == Init /\ [][NextTwice]_vars

\* the same call when the program keeps running: every request is answered or
\* fails and every sleep ends, so a step that can be taken is taken
\* the endpoint's answers are one of each kind the two retry layers tell
\* apart: a failure without the marker, a failure with it, an empty text and a
\* text
LiveOutcomes ==
    { [kind |-> "transport"],
      [kind |-> "response", status_code |-> 429, text |-> API_LIMIT],
      [kind |-> "response", status_code |-> 200,
       json |-> [valid |-> TRUE, object |-> TRUE, fields |-> [response |-> PyStr(<<>>)]]],
      [kind |-> "response", status_code |-> 200,
       json |-> [valid |-> TRUE, object |-> TRUE, fields |-> [response |-> PyStr(<<"4">>)]]] }

LiveMessages ==
    { <<Msg("system", <<"B">>), Msg("user", <<"2", "+", "2", "?">>)>>,
      <<Msg("user", <<"h">>), [content |-> <<"h">>]>> }

LiveDelays == {0 - 1, 1}

BeginLive ==
    \E msgs \in LiveMessages, n \in RetryCounts, d \in LiveDelays : Call(1, msgs, n, d)

RequestLive ==
    \E o \in LiveOutcomes, elapsed \in ElapsedChoices :
        Http(1, o, elapsed) /\ UNCHANGED endpoint

NextLive == BeginLive \/ Exit \/ Build \/ RequestLive \/ Empty \/ Success \/ Failed \/ Outer

SpecLive == Init /\ [][NextLive]_vars /\ WF_vars(NextLive)

\* two calls of get_chat_completion at once, as from two threads: any caller
\* that can take a step may take the next one
ConcurrentCounts == {0, 1, 2}

Start(c) ==
    \E msgs \in LiveMessages, n \in ConcurrentCounts, d \in LiveDelays : Call(c, msgs, n, d)

RequestOf(c) == \E o \in LiveOutcomes : Http(c, o, 0) /\ UNCHANGED endpoint

Step(c) ==
    \/ Start(c)
    \/ LoopExit(c)
    \/ Convert(c)
    \/ RequestOf(c)
    \/ EmptyResponse(c)
    \/ ReturnText(c)
    \/ HandleException(c)
    \/ OuterExcept(c)

NextConcurrent == \E c \in Callers : Step(c)

SpecConcurrent == Init /\ [][NextConcurrent]_vars

\* two calls in a row whose message sequences differ only in their system
\* messages, each answered at its first request
NotSystem(m) == m.role # "system"

OkOutcome ==
    [kind |-> "response", status_code |-> 200,
     json |-> [valid |-> TRUE, object |-> TRUE, fields |-> [response |-> PyStr(<<"4">>)]]]

BeginWell == \E msgs \in SeqsUpTo(WellFormed, MaxMsgs) : Call(1, msgs, 1, 1)

\* the sequences got from msgs by dropping its system messages, by giving
\* them all another content, or by one more system message at either end
Alike(msgs) ==
    {SelectSeq(msgs, NotSystem)}
        \cup {[i \in DOMAIN msgs |-> IF NotSystem(msgs[i]) THEN msgs[i] ELSE Msg("system", t)] :
                 t \in Contents}
        \cup {<<Msg("system", t)>> \o msgs : t \in Contents}
        \cup {msgs \o <<Msg("system", t)>> : t \in Contents}

BeginAlike ==
    /\ pc[1] = "done"
    /\ \E msgs \in Alike(messages[1]) : Call(2, msgs, 1, 1)

RequestOk(c) == Http(c, OkOutcome, 0) /\ UNCHANGED endpoint

NextPair ==
    \/ BeginWell
    \/ BeginAlike
    \/ \E c \in Callers : Convert(c) \/ RequestOk(c) \/ ReturnText(c)

SpecPair == Init /\ [][NextPair]_vars

-----------------------------------------------------------------------------
(* Properties *)

\* the call ended without a truthy text from the API caller in its last attempt
EndedFailing(c) == pc[c] = "done" /\ ~Truthy(response_text[c])

HasMarker(v) == v.type = "str" /\ Contains(v.value, API_LIMIT)

\* C1: get_chat_completion never raises to its caller; whatever the backend
\* does and even when a sleep between attempts raises, the call ends by
\* returning a non-empty text or None.
C1_NeverRaises ==
    \A c \in Callers :
        /\ pc[c] # "raised"
        /\ pc[c] = "done" =>
              \/ result[c] = None
              \/ result[c].type = "str" /\ Len(result[c].value) > 0

\* a call that issued a request and ended in the outer handler because the
\* sleep between attempts raised
C1_Witness ==
    /\ pc[1] = "done"
    /\ e[1] = PyStr(ValueError)
    /\ hist[1].requests > 0
    /\ hist[1].decided.path = "exception"
    /\ result[1] = None

\* C2: with max_retries = 3 and initial_retry_delay = 1 a backend failing on
\* every call gives exactly 3 attempts, a sleep of 1 s after the first, of 2 s
\* after the second, none after the third, and the result None.
C2_RetryBound ==
    \A c \in Callers :
        (pc[c] # "idle" /\ max_retries[c] = 3 /\ initial_retry_delay[c] = 1) =>
            /\ hist[c].attempts <= 3
            /\ EndedFailing(c) =>
                  /\ hist[c].attempts = 3
                  /\ hist[c].sleeps = << [after |-> 0, secs |-> 1], [after |-> 1, secs |-> 2] >>
                  /\ result[c] = None

C2_Witness ==
    /\ EndedFailing(1)
    /\ max_retries[1] = 3
    /\ initial_retry_delay[1] = 1
    /\ hist[1].attempts = 3
    /\ hist[1].requests >= 3

\* C3: with max_retries = 1 there is exactly one attempt and no retry sleep,
\* and a failing attempt (exception or empty text) returns None at once.
C3_SingleAttempt ==
    \A c \in Callers :
        (pc[c] # "idle" /\ max_retries[c] = 1) =>
            /\ hist[c].attempts <= 1
            /\ hist[c].sleeps = <<>>
            /\ hist[c].decided.path # "none" =>
                  /\ ~hist[c].decided.retry
                  /\ pc[c] = "done"
                  /\ result[c] = None
                  /\ hist[c].attempts = 1
            /\ pc[c] = "done" => hist[c].attempts = 1

C3_Witness ==
    /\ pc[1] = "done"
    /\ max_retries[1] = 1
    /\ hist[1].decided.path = "empty"
    /\ result[1] = None

\* C4: once an attempt has a non-empty text from the API caller the adapter
\* returns exactly that text, with no further attempt, request or sleep, and
\* nothing happens after the return.
C4_ReturnsTextAtOnce ==
    [][\A c \in Callers :
          /\ (pc[c] = "check" /\ Truthy(response_text[c])) =>
                /\ pc'[c] = "done"
                /\ result'[c] = response_text[c]
                /\ hist'[c] = hist[c]
          /\ pc[c] = "done" =>
                /\ pc'[c] = "done"
                /\ result'[c] = result[c]
                /\ hist'[c] = hist[c]]_vars

\* the scenario [system "B...", user "2+2?"] answered {"response": "4"} with
\* attempts still remaining
C4_Witness ==
    /\ pc[1] = "done"
    /\ result[1] = PyStr(<<"4">>)
    /\ Len(messages[1]) = 2
    /\ messages[1][1].role = "system"
    /\ hist[1].attempts = 1
    /\ max_retries[1] = 3

\* C5: an attempt that got an empty text is handled like one that raised:
\* on both paths the adapter retries iff attempt < max_retries - 1, the delay
\* before the next attempt is initial_retry_delay * 2^attempt, and the result
\* is None once the attempts are used up.
C5_EmptyLikeException ==
    \A c \in Callers :
        LET d == hist[c].decided
        IN  d.path \in {"empty", "exception"} =>
                /\ d.retry = (d.attempt < max_retries[c] - 1)
                /\ d.retry => d.delay = initial_retry_delay[c] * (2 ^ d.attempt)
                /\ ~d.retry => (pc[c] = "done" /\ result[c] = None)

C5_Witness ==
    /\ hist[1].decided.path = "empty"
    /\ hist[1].decided.retry
    /\ hist[1].decided.attempt = 1
    /\ hist[1].decided.delay = 4
    /\ pc[1] = "for"

\* C6: in generate_content_with_retry an error without "API limit" in its
\* message is not retried (a call whose errors all lack it makes one request
\* and the error propagates); an error with it is retried, until 5 requests
\* were made (or the decorator's max_time has passed).
C6_OnlyApiLimitRetried ==
    \A c \in Callers :
        /\ tries[c] <= max_tries
        /\ (pc[c] = "call" /\ tries[c] > 0) =>
              /\ HasMarker(e[c])
              /\ tries[c] < max_tries
        /\ (pc[c] = "except" /\ hist[c].api = "raised") =>
              /\ hist[c].call_limits = 0 => tries[c] = 1
              /\ HasMarker(e[c]) =>
                    (tries[c] = max_tries \/ hist[c].elapsed >= max_time)

\* five requests, each failing with "API limit", then the error propagates
C6_Witness ==
    /\ pc[1] = "except"
    /\ hist[1].api = "raised"
    /\ HasMarker(e[1])
    /\ tries[1] = 5
    /\ hist[1].elapsed < max_time

\* C7: a response whose status is not 200 makes generate_content_with_retry
\* raise, never return a text, and the message of the error holds the status
\* code and the body.
C7_Non200Raises ==
    \A c \in Callers :
        LET o == hist[c].last
        IN  (o.kind = "response" /\ o.status_code # 200) =>
                /\ hist[c].api = "raised"
                /\ response_text[c] = None
                /\ pc[c] # "check"
                /\ pc[c] \in {"call", "except"} =>
                      /\ e[c].type = "str"
                      /\ Contains(e[c].value, Decimal(o.status_code))
                      /\ Contains(e[c].value, o.text)

C7_Witness ==
    /\ pc[1] = "except"
    /\ hist[1].last.kind = "response"
    /\ hist[1].last.status_code = 201
    /\ hist[1].last.text = <<"n", "o">>
    /\ tries[1] = 1

Is200Object(o) ==
    o.kind = "response" /\ o.status_code = 200 /\ o.json.valid /\ o.json.object

\* C8 as stated: every 200 response with a `response` field makes
\* generate_content_with_retry return that field's value unchanged, and one
\* without the field makes it return "".
C8_Original ==
    \A c \in Callers :
        LET o == hist[c].last
        IN  Is200Object(o) =>
                /\ hist[c].api = "returned"
                /\ response_text[c] =
                      IF "response" \in DOMAIN o.json.fields
                      THEN o.json.fields["response"] ELSE PyStr(<<>>)

\* C8 (amended): every 200 response whose JSON object has a `response` field
\* holding a string makes generate_content_with_retry return that string
\* unchanged; a 200 JSON object without the field makes it return ""; a
\* `response` field that is null or a number makes it raise.
C8_ReturnsResponseField ==
    \A c \in Callers :
        LET o == hist[c].last
        IN  Is200Object(o) =>
                IF "response" \notin DOMAIN o.json.fields
                THEN hist[c].api = "returned" /\ response_text[c] = PyStr(<<>>)
                ELSE IF o.json.fields["response"].type = "str"
                THEN hist[c].api = "returned"
                     /\ response_text[c] = o.json.fields["response"]
                ELSE hist[c].api = "raised" /\ response_text[c] = None

C8_Witness ==
    /\ pc[1] = "check"
    /\ Is200Object(hist[1].last)
    /\ "response" \in DOMAIN hist[1].last.json.fields
    /\ response_text[1] = PyStr(<<"4">>)

WellFormedSeq(msgs) == \A i \in DOMAIN msgs : DOMAIN msgs[i] = {"role", "content"}

IsTurn(m) == m.role \in {"user", "assistant"}

Line(m) ==
    (IF m.role = "user" THEN UserLabel ELSE AssistantLabel) \o m.content \o <<NL>>

RECURSIVE Lines(_)
Lines(turns) == IF turns = <<>> THEN <<>> ELSE Line(Head(turns)) \o Lines(Tail(turns))

\* s is p without its leading and trailing whitespace
IsStripped(s, p) ==
    \E i \in 1..(Len(p) + 1), j \in 0..Len(p) :
        /\ s = SubSeq(p, i, j)
        /\ \A k \in 1..Len(p) : (k < i \/ k > j) => p[k] \in Whitespace
        /\ s # <<>> => (s[1] \notin Whitespace /\ s[Len(s)] \notin Whitespace)

\* C9: the prompt built is, in message order, one line "User: <content>\n"
\* per user message and "Assistant: <content>\n" per assistant message,
\* system messages adding nothing, and the prompt sent is that string
\* without leading and trailing whitespace.
C9_PromptInOrder ==
    \A c \in Callers :
        (WellFormedSeq(messages[c]) /\ hist[c].attempts > 0) =>
            /\ pc[c] = "except" => hist[c].api = "raised"
            /\ prompt[c] = Lines(SelectSeq(messages[c], IsTurn))
            /\ hist[c].requests > 0 =>
                  IsStripped(hist[c].payload.prompt, Lines(SelectSeq(messages[c], IsTurn)))

C9_Witness ==
    /\ hist[1].requests > 0
    /\ Len(messages[1]) = 2
    /\ WellFormedSeq(messages[1])
    /\ messages[1][1] = Msg("assistant", <<"h">>)
    /\ messages[1][2] = Msg("user", <<"h", " ">>)
    /\ hist[1].payload.prompt # prompt[1]

\* C10: for a message sequence without a system message the configuration
\* passed to the API caller is the empty mapping, without system_instruction.
C10_NoSystemNoKey ==
    \A c \in Callers :
        ( /\ hist[c].attempts > 0
          /\ WellFormedSeq(messages[c])
          /\ \A i \in DOMAIN messages[c] : messages[c][i].role # "system" ) =>
            /\ "system_instruction" \notin DOMAIN config[c]
            /\ config[c] = EmptyConfig

C10_Witness ==
    /\ pc[1] = "call"
    /\ Len(messages[1]) = 2
    /\ WellFormedSeq(messages[1])
    /\ \A i \in DOMAIN messages[1] : messages[1][i].role # "system"
    /\ config[1] = EmptyConfig


HasSystem(msgs) == \E i \in DOMAIN msgs : msgs[i].role = "system"

\* the content of the last system message of msgs
LastSystem(msgs) ==
    LET i == CHOOSE k \in DOMAIN msgs :
                 /\ msgs[k].role = "system"
                 /\ \A j \in DOMAIN msgs : j > k => msgs[j].role # "system"
    IN  msgs[i].content

\* C11 as stated: for every message sequence with a system message the
\* configuration passed to the API caller has system_instruction equal to
\* the content of the last system message.
C11_Original ==
    \A c \in Callers :
        (hist[c].attempts > 0 /\ WellFormedSeq(messages[c]) /\ HasSystem(messages[c])) =>
            /\ "system_instruction" \in DOMAIN config[c]
            /\ config[c]["system_instruction"] = PyStr(LastSystem(messages[c]))

\* C11 (amended): for every message sequence with a system message, when
\* the content of the last system message is not empty the configuration has
\* system_instruction equal to that content (a later system message
\* overwrites an earlier one); when it is the empty string the configuration
\* is the empty mapping.
C11_LastSystemWins ==
    \A c \in Callers :
        (hist[c].attempts > 0 /\ WellFormedSeq(messages[c]) /\ HasSystem(messages[c])) =>
            IF LastSystem(messages[c]) # <<>>
            THEN /\ DOMAIN config[c] = {"system_instruction"}
                 /\ config[c]["system_instruction"] = PyStr(LastSystem(messages[c]))
            ELSE config[c] = EmptyConfig

\* two system messages with different contents: the second one is used
C11_Witness ==
    /\ pc[1] = "call"
    /\ messages[1] = <<Msg("system", <<"h">>), Msg("system", <<"h", " ">>)>>
    /\ config[1] = [system_instruction |-> PyStr(<<"h", " ">>)]


BothDone == pc[1] = "done" /\ pc[2] = "done"

\* C12 as stated: two calls with the same arguments against a deterministic
\* endpoint give the same result, and the second call issues the same
\* requests as the first.
C12_Original ==
    BothDone =>
        /\ result[2] = result[1]
        /\ hist[2].requests = hist[1].requests
        /\ hist[2].payload = hist[1].payload

\* C12 (amended): two calls with the same arguments against a deterministic
\* endpoint give the same result, make the same number of attempts with the
\* same sleeps between them and send the same request body; they issue the
\* same number of requests too unless the decorator's max_time cut the
\* retries of an "API limit" failure short in one of them.
C12_SameResultTwice ==
    BothDone =>
        /\ result[2] = result[1]
        /\ hist[2].attempts = hist[1].attempts
        /\ hist[2].sleeps = hist[1].sleeps
        /\ hist[2].payload = hist[1].payload
        /\ (~hist[1].timed_out /\ ~hist[2].timed_out) =>
              /\ hist[2].requests = hist[1].requests
              /\ hist[2].limit_sleeps = hist[1].limit_sleeps
              /\ hist[2].waits = hist[1].waits

\* both calls failed three attempts of five requests each
C12_Witness ==
    /\ BothDone
    /\ max_retries[2] = 3
    /\ hist[1].requests = 15
    /\ hist[2].requests = 15
    /\ result[2] = None


\* the sleeps recorded so far are those after attempts 0, 1, ... in order,
\* the one after attempt k lasting d * 2^k
OnSchedule(c) ==
    \A i \in DOMAIN hist[c].sleeps :
        hist[c].sleeps[i] = [after |-> i - 1, secs |-> initial_retry_delay[c] * (2 ^ (i - 1))]

\* C13 as stated: for every max_retries n >= 1 and every initial_retry_delay
\* d, a call whose attempts all fail sleeps n - 1 times, d * 2^k after the
\* attempt of index k, and not after the last attempt.
C13_Original ==
    \A c \in Callers :
        (EndedFailing(c) /\ max_retries[c] >= 1) =>
            /\ hist[c].attempts = max_retries[c]
            /\ Len(hist[c].sleeps) = max_retries[c] - 1
            /\ OnSchedule(c)

\* C13 (amended): for every max_retries n >= 1 and every
\* initial_retry_delay d >= 0, a call whose attempts all fail sleeps n - 1
\* times, d * 2^k after the attempt of index k for k = 0..n-2 in increasing
\* order, each sleep after attempt k has ended and before attempt k + 1
\* starts, and none after the last attempt; for d < 0 and n >= 2 the first
\* sleep raises and the call ends after one attempt without having slept.
C13_SleepSchedule ==
    \A c \in Callers :
        (pc[c] # "idle" /\ max_retries[c] >= 1) =>
            IF initial_retry_delay[c] >= 0
            THEN /\ OnSchedule(c)
                 /\ Len(hist[c].sleeps) = attempt[c]
                 /\ hist[c].attempts = IF pc[c] = "for" THEN attempt[c] ELSE attempt[c] + 1
                 /\ EndedFailing(c) =>
                       /\ hist[c].attempts = max_retries[c]
                       /\ Len(hist[c].sleeps) = max_retries[c] - 1
            ELSE /\ hist[c].sleeps = <<>>
                 /\ hist[c].attempts <= 1
                 /\ EndedFailing(c) => hist[c].attempts = 1

C13_Witness ==
    /\ EndedFailing(1)
    /\ max_retries[1] = 3
    /\ initial_retry_delay[1] = 2
    /\ hist[1].sleeps = << [after |-> 0, secs |-> 2], [after |-> 1, secs |-> 4] >>
    /\ hist[1].attempts = 3


\* C14: the system instruction never reaches the endpoint: every request
\* body is exactly the fixed model, the prompt of the user and assistant
\* lines and stream = false, whatever the configuration, and two message
\* sequences that differ only in their system messages give the same body.
C14_SystemNotSent ==
    /\ \A c \in Callers :
          hist[c].requests > 0 =>
              /\ DOMAIN hist[c].payload = {"model", "prompt", "stream"}
              /\ hist[c].payload.model = MODEL
              /\ hist[c].payload.stream = FALSE
              /\ IsStripped(hist[c].payload.prompt, Lines(SelectSeq(messages[c], IsTurn)))
    /\ ( /\ hist[1].requests > 0
         /\ hist[2].requests > 0
         /\ SelectSeq(messages[1], NotSystem) = SelectSeq(messages[2], NotSystem) ) =>
            hist[1].payload = hist[2].payload

\* one call with a system instruction, one without, same request body
C14_Witness ==
    /\ hist[1].requests > 0
    /\ hist[2].requests > 0
    /\ Len(messages[1]) = 2
    /\ config[1] = [system_instruction |-> PyStr(<<"h">>)]
    /\ config[2] = EmptyConfig
    /\ hist[1].payload = hist[2].payload
    /\ hist[1].payload.prompt # <<>>


\* C15: in the API caller a failure whose message contains "API limit" is
\* followed by one 5-second sleep before the exception is raised again to
\* the backoff decorator, so before its wait, before the next request and
\* also at the last permitted try; a failure without the marker has no such
\* sleep, and neither has a try that returns.
C15_LimitSleep ==
    [][\A c \in Callers :
          hist'[c].requests = hist[c].requests + 1 =>
              IF hist'[c].api = "raised" /\ HasMarker(e'[c])
              THEN /\ hist'[c].order \in {<<"post", "sleep", "raise", "wait">>,
                                          <<"post", "sleep", "raise", "giveup">>}
                   /\ hist'[c].limit_secs = hist[c].limit_secs + 5
                   /\ hist'[c].limit_sleeps = hist[c].limit_sleeps + 1
                   /\ tries'[c] = max_tries =>
                          hist'[c].order = <<"post", "sleep", "raise", "giveup">>
              ELSE /\ hist'[c].order \in {<<"post", "raise", "giveup">>, <<"post", "return">>}
                   /\ hist'[c].limit_secs = hist[c].limit_secs
                   /\ hist'[c].limit_sleeps = hist[c].limit_sleeps]_vars

\* the fifth try of one attempt fails with the marker and is given up after
\* its sleep, all five failures of the attempt having slept 5 seconds
C15_Witness ==
    /\ tries[1] = max_tries
    /\ HasMarker(e[1])
    /\ hist[1].order = <<"post", "sleep", "raise", "giveup">>
    /\ hist[1].call_limits = max_tries
    /\ hist[1].limit_secs >= 5 * max_tries


\* C16: for every max_retries and every behaviour of the backend in which
\* each request is answered or fails, a call of get_chat_completion that has
\* started returns.
C16_Terminates == (pc[1] # "idle") ~> (pc[1] = "done")

\* the longest call has returned: every attempt made all its tries
C16_Witness ==
    /\ pc[1] = "done"
    /\ max_retries[1] = MaxRetries
    /\ hist[1].attempts = MaxRetries
    /\ hist[1].requests = max_tries * MaxRetries


\* everything one call holds: its arguments, its locals and its record
Local(c) ==
    <<pc[c], messages[c], max_retries[c], initial_retry_delay[c], attempt[c],
      prompt[c], system_instruction[c], config[c], tries[c], response_text[c],
      e[c], result[c], hist[c]>>

\* what one call has done follows from its own arguments and answers
OwnSchedule(c) ==
    /\ hist[c].attempts <= max_retries[c]
    /\ hist[c].attempts = IF pc[c] = "for" \/ max_retries[c] = 0
                          THEN attempt[c] ELSE attempt[c] + 1
    /\ Len(hist[c].sleeps) = attempt[c]
    /\ \A i \in DOMAIN hist[c].sleeps :
           hist[c].sleeps[i] = [after |-> i - 1, secs |-> initial_retry_delay[c] * (2 ^ (i - 1))]
    /\ hist[c].requests <= max_tries * hist[c].attempts
    /\ (pc[c] = "done" /\ result[c] # None) =>
           /\ Is200Object(hist[c].last)
           /\ result[c] = GetResponse(hist[c].last.json.fields)
           /\ hist[c].payload = Payload(ApiPrompt(prompt[c]))

\* C17: two concurrent calls share no mutable state: every step changes what
\* one call holds and leaves the other call's arguments, attempt counter,
\* sleeps, requests and result as they were, and under every interleaving
\* each call's attempts, sleep schedule, requests and result are those its
\* own arguments and its own answers give.
C17_NoSharedState ==
    /\ [](\A c \in Callers : pc[c] # "idle" => OwnSchedule(c))
    /\ [][\E c \in Callers : \A x \in Callers \ {c} : Local(x)' = Local(x)]_vars

\* one call is in its second attempt after a failure while the other, begun
\* with the same arguments, is still in its first and has been answered
C17_Witness ==
    /\ pc[1] = "call" /\ attempt[1] = 1 /\ hist[1].requests > 0
    /\ pc[2] = "check" /\ attempt[2] = 0 /\ hist[2].requests = 1
    /\ messages[1] = messages[2]
    /\ max_retries[1] = max_retries[2]
    /\ initial_retry_delay[1] = initial_retry_delay[2]


\* C18 as stated: the requests of one call are at most 5 * max_retries, they
\* are as many as the attempts whenever no failure message contains
\* "API limit", and only such failures give one attempt a second request.
C18_Original ==
    \A c \in Callers :
        pc[c] # "idle" =>
            /\ hist[c].requests <= max_tries * max_retries[c]
            /\ (pc[c] = "done" /\ hist[c].limit_sleeps = 0) =>
                   hist[c].requests = hist[c].attempts
            /\ tries[c] <= hist[c].call_limits + 1

\* C18 (amended): for max_retries >= 0 the requests of one call are at most
\* 5 * max_retries, and none are made for a negative max_retries; when every
\* message has its role and content and no failure message contains
\* "API limit", each attempt makes exactly one request; a message without
\* role or content gives attempts without any request; only "API limit"
\* failures give one attempt a second request.
C18_RequestsBounded ==
    \A c \in Callers :
        pc[c] # "idle" =>
            /\ hist[c].requests <= max_tries * (IF max_retries[c] >= 0 THEN max_retries[c] ELSE 0)
            /\ tries[c] <= hist[c].call_limits + 1
            /\ tries[c] <= max_tries
            /\ (WellFormedSeq(messages[c]) /\ hist[c].limit_sleeps = 0) =>
                   hist[c].requests =
                       IF pc[c] = "call" THEN hist[c].attempts - 1 ELSE hist[c].attempts
            /\ ~WellFormedSeq(messages[c]) => hist[c].requests = 0

\* three attempts, one request each, none failing with the marker
C18_Witness ==
    /\ pc[1] = "done"
    /\ WellFormedSeq(messages[1])
    /\ hist[1].limit_sleeps = 0
    /\ max_retries[1] = MaxRetries
    /\ hist[1].attempts = MaxRetries
    /\ hist[1].requests = MaxRetries


\* C19: with max_retries 0 or negative, get_chat_completion makes no attempt
\* and no HTTP request, sleeps nowhere and returns None, for every message
\* sequence.
C19_NoRetriesNoRequest ==
    \A c \in Callers :
        (pc[c] # "idle" /\ max_retries[c] <= 0) =>
            /\ pc[c] \in {"for", "done"}
            /\ hist[c].attempts = 0
            /\ hist[c].requests = 0
            /\ hist[c].sleeps = <<>>
            /\ hist[c].limit_sleeps = 0
            /\ hist[c].waits = 0
            /\ pc[c] = "done" => result[c] = None

\* a call with max_retries = 0 and a non-empty message sequence has returned
C19_Witness ==
    /\ pc[1] = "done"
    /\ max_retries[1] = 0
    /\ messages[1] # <<>>
    /\ result[1] = None
    /\ hist[1].requests = 0


NonNegative(n) == IF n >= 0 THEN n ELSE 0

\* C20 as stated: a message without role or content makes every attempt
\* fail in the handler of the attempt, without any HTTP request, and the
\* call still makes all max_retries attempts with the delays
\* initial_retry_delay * 2^attempt between them and returns None.
C20_Original ==
    \A c \in Callers :
        (pc[c] # "idle" /\ ~WellFormedSeq(messages[c])) =>
            /\ hist[c].requests = 0
            /\ pc[c] \notin {"call", "check"}
            /\ OnSchedule(c)
            /\ pc[c] = "done" =>
                   /\ result[c] = None
                   /\ hist[c].attempts = NonNegative(max_retries[c])
                   /\ Len(hist[c].sleeps) = NonNegative(max_retries[c] - 1)

\* C20 (amended): a message without role or content makes every attempt
\* fail with a KeyError in the handler of the attempt, without any HTTP
\* request, and the call returns None; when initial_retry_delay >= 0 or
\* max_retries <= 1 it makes all max_retries attempts with the delays
\* initial_retry_delay * 2^attempt between them, and when
\* initial_retry_delay < 0 and max_retries >= 2 the first sleep raises and
\* the call ends after one attempt.
C20_MalformedNoRequest ==
    \A c \in Callers :
        (pc[c] # "idle" /\ ~WellFormedSeq(messages[c])) =>
            /\ hist[c].requests = 0
            /\ pc[c] \in {"for", "except", "outer_except", "done"}
            /\ pc[c] = "except" => e[c] \in {PyStr(KeyErrorRole), PyStr(KeyErrorContent)}
            /\ pc[c] = "done" => result[c] = None
            /\ IF initial_retry_delay[c] >= 0 \/ max_retries[c] <= 1
               THEN /\ OnSchedule(c)
                    /\ Len(hist[c].sleeps) = attempt[c]
                    /\ pc[c] = "done" =>
                           /\ hist[c].attempts = NonNegative(max_retries[c])
                           /\ Len(hist[c].sleeps) = NonNegative(max_retries[c] - 1)
               ELSE /\ hist[c].sleeps = <<>>
                    /\ hist[c].attempts <= 1
                    /\ pc[c] = "done" => hist[c].attempts = 1

\* a call with a message without content has made all its attempts, slept 2
\* and 4 seconds between them and returned None without a request
C20_Witness ==
    /\ pc[1] = "done"
    /\ messages[1] = <<[role |-> "user"]>>
    /\ max_retries[1] = MaxRetries
    /\ initial_retry_delay[1] = 2
    /\ hist[1].attempts = MaxRetries
    /\ Len(hist[1].sleeps) = MaxRetries - 1
    /\ hist[1].sleeps[2] = [after |-> 1, secs |-> 4]
    /\ hist[1].requests = 0
    /\ result[1] = None

====
